---- MODULE Spec2Model ----
(***************************************************************************)
(* Model of examples/extract_site_gee_subset.py: the PhenoCam metadata     *)
(* fetcher get_siteinfo and the __main__ script that loops over the years  *)
(* of a site, calls gee_subset once per year, concatenates the yearly      *)
(* tables and writes one CSV file.                                         *)
(*                                                                         *)
(* Python values are tagged records ([py |-> "None"], [py |-> "str", ...]) *)
(* so that a variable may hold None or a value, as in the script.  Text    *)
(* that the script parses or formats character by character (dates) is a   *)
(* sequence of one-character strings.                                      *)
(***************************************************************************)
EXTENDS Integers, Sequences, FiniteSets, TLC

\* ------------------------------------------------------------------ bounds
\* rows of the largest table one gee_subset call returns
MaxRows == 2
\* records in the largest "results" array the API answers with
MaxResults == 2
\* earliest site start year, counted back from end_year
YearsBack == 2
\* latest site start year, counted beyond end_year
YearsBeyond == 1

\* ------------------------------------------------------- program constants
end_year == 2017
scale == 500
pad == 0
product == "MODIS/006/MCD43A4"
bands == <<"Nadir_Reflectance_Band1", "Nadir_Reflectance_Band2", "Nadir_Reflectance_Band3">>

\* ------------------------------------------------------------ python values
None == [py |-> "None"]
IsNone(v) == v.py = "None"
PyStr(chars) == [py |-> "str", s |-> chars]
DataFrame(rows) == [py |-> "DataFrame", rows |-> rows]
\* a JSON number: an int or a float literal; the value is kept in tenths
JsonNumber(kind, tenths) == [py |-> kind, tenths |-> tenths]

Digits == <<"0", "1", "2", "3", "4", "5", "6", "7", "8", "9">>
IsDigit(c) == \E i \in 1..10 : Digits[i] = c
DigitValue(c) == (CHOOSE i \in 1..10 : Digits[i] = c) - 1

\* str(n) for n >= 0, as "{}".format(n) renders an int
RECURSIVE str(_)
str(n) == IF n < 10 THEN <<Digits[n + 1]>> ELSE str(n \div 10) \o <<Digits[(n % 10) + 1]>>

\* s.split(sep) for a one-character separator: the list of the pieces
RECURSIVE split(_, _)
split(s, sep) ==
  IF \A i \in 1..Len(s) : s[i] # sep
  THEN <<s>>
  ELSE LET k == CHOOSE i \in 1..Len(s) : s[i] = sep /\ \A j \in 1..(i - 1) : s[j] # sep
       IN <<SubSeq(s, 1, k - 1)>> \o split(SubSeq(s, k + 1, Len(s)), sep)

\* int(s) accepts a non-empty run of decimal digits (the only shapes the
\* date strings of the model produce); anything else raises ValueError
IntAccepts(s) == Len(s) > 0 /\ \A i \in 1..Len(s) : IsDigit(s[i])
RECURSIVE int(_)
int(s) == IF Len(s) = 1 THEN DigitValue(s[1])
          ELSE 10 * int(SubSeq(s, 1, Len(s) - 1)) + DigitValue(s[Len(s)])

\* float(x) of a JSON number: the same value, as a float
float(x) == JsonNumber("float", x.tenths)

\* range(a, b) as the list of the values it yields
range(a, b) == [i \in 1..(IF b > a THEN b - a ELSE 0) |-> a + i - 1]

\* ------------------------------------------------------------------ inputs
SiteNames == {"harvard", "bartlettir"}
StatusCodes == {200, 404, 500}
StartYears == (end_year - YearsBack)..(end_year + YearsBeyond)

DateString(y, mmdd) == PyStr(str(y) \o <<"-">> \o mmdd)
Record(lat, lon, first, last) ==
  [Lat |-> lat, Lon |-> lon, date_first |-> first, date_last |-> last]

\* the camera records the API can answer with: sites with a first image in
\* each start year, the same start years with other coordinates and another
\* date_last, and two sites without a usable date_first
Records ==
  {Record(JsonNumber("float", 425), JsonNumber("float", -722),
          DateString(y, <<"0", "6", "-", "0", "1">>),
          DateString(end_year, <<"0", "1", "-", "0", "1">>)) : y \in StartYears}
  \cup
  {Record(JsonNumber("int", 440), JsonNumber("float", -713),
          DateString(y, <<"1", "2", "-", "3", "1">>),
          DateString(end_year + 2, <<"0", "5", "-", "0", "5">>)) :
     y \in {end_year - YearsBack, end_year}}
  \cup
  {Record(JsonNumber("float", 425), JsonNumber("float", -722), None, None),
   Record(JsonNumber("float", 425), JsonNumber("float", -722), PyStr(<<>>), PyStr(<<>>))}

RECURSIVE SeqsUpTo(_, _)
SeqsUpTo(S, n) ==
  IF n = 0 THEN {<<>>}
  ELSE LET shorter == SeqsUpTo(S, n - 1)
       IN shorter \cup {Append(q, x) : q \in {r \in shorter : Len(r) = n - 1}, x \in S}

\* the body of a 200 answer: count is the number of records in results
JsonBody(results) == [py |-> "dict", count |-> Len(results), results |-> results]
\* the body of an error answer has no count and no results
ErrorBody == [py |-> "dict", detail |-> "Not found."]

\* the records that can follow the first one in a results array
FurtherRecords ==
  {Record(JsonNumber("float", 101), JsonNumber("int", 200),
          DateString(y, <<"0", "3", "-", "1", "5">>),
          DateString(end_year + 1, <<"0", "9", "-", "3", "0">>)) :
     y \in {end_year - 1, end_year + 1}}

\* the results arrays of a 200 answer: empty, or any record followed by up
\* to MaxResults - 1 further ones
ResultLists ==
  {<<>>} \cup {<<r>> \o rest : r \in Records, rest \in SeqsUpTo(FurtherRecords, MaxResults - 1)}

Responses ==
  {[py |-> "Response", status_code |-> 200, json |-> JsonBody(rs)] : rs \in ResultLists}
  \cup {[py |-> "Response", status_code |-> c, json |-> ErrorBody] : c \in StatusCodes \ {200}}

\* the tables gee_subset can return for one year: 0..MaxRows rows, each row
\* tagged with the year of its window and its place in the table
YearTable(y, n) == DataFrame([i \in 1..n |-> [year |-> y, obs |-> i]])
YearTables(y) == {YearTable(y, n) : n \in 0..MaxRows}

\* ------------------------------------------------------------------- state
VARIABLES
  pc,              \* the statement the script is at
  sitename,        \* args.sitename
  verbose,         \* args.verbose
  response,        \* what requests.get returned
  site_info,       \* what get_siteinfo returned
  lat, lon, date_first, date_last,
  start_year,      \* 0 until line 97 assigns it
  it,              \* position of the for loop's iterator in range(...)
  year,            \* the loop variable
  df,              \* the accumulated table
  stdout,          \* lines printed, as <<template, value>>
  stderr,          \* messages written to sys.stderr, as <<template, value>>
  files,           \* files written: [path, rows]
  ee_initialized,  \* ee.Initialize() has returned
  outcome,         \* "running", "exit", "uncaught" or "success"
  exc,             \* the exception that ended the run, with the line that raised it
  calls,           \* the keyword arguments of every gee_subset call, in order
  returned,        \* the table every gee_subset call returned, in order
  trace            \* the external calls invoked, in order

vars == <<pc, sitename, verbose, response, site_info, lat, lon, date_first,
          date_last, start_year, it, year, df, stdout, stderr, files,
          ee_initialized, outcome, exc, calls, returned, trace>>

argv == <<sitename, verbose>>
metadata == <<lat, lon, date_first, date_last>>
loopvars == <<it, year, df>>
extraction == <<calls, returned>>

\* a name the script has not assigned yet
Unbound == [py |-> "unbound"]

Init ==
  /\ pc = "main"
  /\ sitename \in SiteNames
  /\ verbose \in BOOLEAN
  /\ response = Unbound
  /\ site_info = Unbound
  /\ lat = Unbound /\ lon = Unbound /\ date_first = Unbound /\ date_last = Unbound
  /\ start_year = 0
  /\ it = 0
  /\ year = 0
  /\ df = Unbound
  /\ stdout = <<>>
  /\ stderr = <<>>
  /\ files = <<>>
  /\ ee_initialized = FALSE
  /\ outcome = "running"
  /\ exc = None
  /\ calls = <<>>
  /\ returned = <<>>
  /\ trace = <<>>

\* an exception nothing catches: the interpreter prints the traceback to
\* standard error and the process ends
Raise(type, line, err) ==
  /\ pc' = "terminated"
  /\ outcome' = "uncaught"
  /\ exc' = [py |-> type, line |-> line]
  /\ stderr' = Append(err, <<"Traceback: {}", type>>)

\* lines 72-78: the arguments are parsed; the verbose report
main_args ==
  /\ pc = "main"
  /\ stdout' = IF verbose
               THEN stdout \o <<<<"Verbose: {}", verbose>>, <<"Site Name: {}", sitename>>>>
               ELSE stdout
  /\ pc' = "get_siteinfo"
  /\ UNCHANGED <<argv, response, site_info, metadata, start_year, loopvars, stderr,
                 files, ee_initialized, outcome, exc, extraction, trace>>

\* line 38: the status check of get_siteinfo
IsErrorStatus_accepts4xx(code) == code >= 500
IsErrorStatus(code) == code # 200

\* lines 28-51 and 81: site_info = get_siteinfo(sitename), the request answered
get_siteinfo ==
  /\ pc = "get_siteinfo"
  /\ trace' = Append(trace, "requests.get")
  /\ \E r \in Responses :
       /\ response' = r
       /\ IF IsErrorStatus(r.status_code)
          THEN /\ stderr' = stderr \o <<<<"Error getting site info for {}.\n", sitename>>,
                                        <<"HTTP Status_code: {}\n", r.status_code>>>>
               /\ site_info' = None
               /\ pc' = "check_site_info"
               /\ UNCHANGED <<outcome, exc>>
          ELSE IF "count" \notin DOMAIN r.json
          THEN /\ Raise("KeyError", 46, stderr)
               /\ UNCHANGED site_info
          ELSE /\ stderr' = IF r.json.count = 0
                            THEN Append(stderr, <<"Site {} not found.\n", sitename>>)
                            ELSE stderr
               \* line 49 names sys.exit without calling it: nothing happens
               /\ site_info' = r.json
               /\ pc' = "check_site_info"
               /\ UNCHANGED <<outcome, exc>>
  /\ UNCHANGED <<argv, metadata, start_year, loopvars, stdout, files,
                 ee_initialized, extraction>>

\* line 37: requests.get raises (no connection, no route, ...)
get_siteinfo_raises ==
  /\ pc = "get_siteinfo"
  /\ trace' = Append(trace, "requests.get")
  /\ Raise("ConnectionError", 37, stderr)
  /\ UNCHANGED <<argv, response, site_info, metadata, start_year, loopvars, stdout,
                 files, ee_initialized, extraction>>

\* lines 86-89: the fields read from the first record
ReadRecord_swapped(r) ==
  [lat |-> r.Lon, lon |-> r.Lat, date_first |-> r.date_first, date_last |-> r.date_last]
ReadRecord(r) ==
  [lat |-> r.Lat, lon |-> r.Lon, date_first |-> r.date_first, date_last |-> r.date_last]

\* lines 82-89: exit without site info, else read the first record
check_site_info ==
  /\ pc = "check_site_info"
  /\ IF IsNone(site_info)
     THEN /\ pc' = "terminated"
          /\ outcome' = "exit"
          /\ UNCHANGED <<metadata, exc, stderr>>
     ELSE IF Len(site_info.results) = 0
     THEN /\ Raise("IndexError", 85, stderr)
          /\ UNCHANGED metadata
     ELSE LET results == ReadRecord(site_info.results[1])
          IN /\ lat' = results.lat
             /\ lon' = results.lon
             /\ date_first' = results.date_first
             /\ date_last' = results.date_last
             /\ pc' = "start_year"
             /\ UNCHANGED <<outcome, exc, stderr>>
  /\ UNCHANGED <<argv, response, site_info, start_year, loopvars, stdout, files,
                 ee_initialized, extraction, trace>>

\* lines 91-102: the verbose report, then start_year = int(date_first.split('-')[0])
parse_start_year ==
  /\ pc = "start_year"
  /\ stdout' = IF verbose
               THEN stdout \o <<<<"Lat: {}", lat>>, <<"Lon: {}", lon>>,
                                <<"Date First: {}", date_first>>,
                                <<"Date Last: {}", date_last>>>>
               ELSE stdout
  /\ IF IsNone(date_first)
     THEN /\ Raise("AttributeError", 97, stderr)
          /\ UNCHANGED start_year
     ELSE LET first == split(date_first.s, "-")[1]
          IN IF IntAccepts(first)
             THEN /\ start_year' = int(first)
                  /\ pc' = "ee_init"
                  /\ UNCHANGED <<outcome, exc, stderr>>
             ELSE /\ Raise("ValueError", 97, stderr)
                  /\ UNCHANGED start_year
  /\ UNCHANGED <<argv, response, site_info, metadata, loopvars, files,
                 ee_initialized, extraction, trace>>

\* line 109: the accumulator before the loop
InitialDf_empty_frame == DataFrame(<<>>)
InitialDf == None

\* lines 107-110: the session is initialised, the accumulator and the loop set up
ee_Initialize ==
  /\ pc = "ee_init"
  /\ trace' = Append(trace, "ee.Initialize")
  /\ ee_initialized' = TRUE
  /\ df' = InitialDf
  /\ it' = 1
  /\ pc' = "for"
  /\ UNCHANGED <<argv, response, site_info, metadata, start_year, year, stdout,
                 stderr, files, outcome, exc, extraction>>

\* line 107: ee.Initialize raises (no credentials, no connection)
ee_Initialize_raises ==
  /\ pc = "ee_init"
  /\ trace' = Append(trace, "ee.Initialize")
  /\ Raise("EEException", 107, stderr)
  /\ UNCHANGED <<argv, response, site_info, metadata, start_year, loopvars, stdout,
                 files, ee_initialized, extraction>>

\* line 110: the years the loop runs over
LoopYears_exclusive(s) == range(s, end_year)
LoopYears(s) == range(s, end_year + 1)

\* lines 110-111: the loop takes the next year and prints it
for_next ==
  /\ pc = "for"
  /\ it <= Len(LoopYears(start_year))
  /\ year' = LoopYears(start_year)[it]
  /\ it' = it + 1
  /\ stdout' = Append(stdout, <<"year: {}", year'>>)
  /\ pc' = "gee_subset"
  /\ UNCHANGED <<argv, response, site_info, metadata, start_year, df, stderr, files,
                 ee_initialized, outcome, exc, extraction, trace>>

\* line 110: the range is exhausted, the loop ends
for_exhausted ==
  /\ pc = "for"
  /\ it > Len(LoopYears(start_year))
  /\ pc' = "to_csv"
  /\ UNCHANGED <<argv, response, site_info, metadata, start_year, loopvars, stdout,
                 stderr, files, ee_initialized, outcome, exc, extraction, trace>>

\* lines 114-115: the date window of a year
StartDate(y) == PyStr(str(y) \o <<"-", "0", "1", "-", "0", "1">>)
EndDate_same_year(y) == PyStr(str(y) \o <<"-", "0", "1", "-", "0", "1">>)
EndDate(y) == PyStr(str(y + 1) \o <<"-", "0", "1", "-", "0", "1">>)

\* lines 112-119: the keyword arguments of the call for the current year
CallArgs ==
  [product |-> product, bands |-> bands,
   start_date |-> StartDate(year), end_date |-> EndDate(year),
   latitude |-> float(lat), longitude |-> float(lon),
   scale |-> scale, pad |-> pad]

\* line 124: pd.concat([df, ydf]), the rows of df followed by the rows of ydf
pd_concat_replaces(a, b) == DataFrame(b.rows)
pd_concat(a, b) == DataFrame(a.rows \o b.rows)

\* lines 121-124: the accumulator after one more yearly table
Accumulate(acc, ydf) == IF IsNone(acc) THEN ydf ELSE pd_concat(acc, ydf)

\* lines 126: the path of the output file
OutFile_fixed_name(name) == "./modis_time_series/" \o "site" \o "_gee_subset.csv"
OutFile(name) == "./modis_time_series/" \o name \o "_gee_subset.csv"

\* lines 112-124 with the write of lines 126-127 inside the loop body
gee_subset_returns_writes_in_loop ==
  /\ pc = "gee_subset"
  /\ \E ydf \in YearTables(year) :
       /\ returned' = Append(returned, ydf)
       /\ df' = Accumulate(df, ydf)
       /\ files' = Append(files, [path |-> OutFile(sitename), rows |-> df'.rows])
  /\ trace' = trace \o <<"gee_subset", "to_csv">>
  /\ calls' = Append(calls, CallArgs)
  /\ pc' = "for"
  /\ UNCHANGED <<argv, response, site_info, metadata, start_year, it, year, stdout,
                 stderr, ee_initialized, outcome, exc>>

\* lines 112-124: gee_subset returns the table of the year, which is accumulated
gee_subset_returns ==
  /\ pc = "gee_subset"
  /\ trace' = Append(trace, "gee_subset")
  /\ calls' = Append(calls, CallArgs)
  /\ \E ydf \in YearTables(year) :
       /\ returned' = Append(returned, ydf)
       /\ df' = Accumulate(df, ydf)
  /\ pc' = "for"
  /\ UNCHANGED <<argv, response, site_info, metadata, start_year, it, year, stdout,
                 stderr, files, ee_initialized, outcome, exc>>

\* lines 112-119 inside a try whose handler goes on with the next year
gee_subset_raises_caught ==
  /\ pc = "gee_subset"
  /\ trace' = Append(trace, "gee_subset")
  /\ calls' = Append(calls, CallArgs)
  /\ exc' = [py |-> "EEException", line |-> 112]
  /\ pc' = "for"
  /\ UNCHANGED <<argv, response, site_info, metadata, start_year, loopvars, stdout,
                 stderr, files, ee_initialized, outcome, returned>>

\* lines 112-119: gee_subset raises; nothing catches it
gee_subset_raises ==
  /\ pc = "gee_subset"
  /\ trace' = Append(trace, "gee_subset")
  /\ calls' = Append(calls, CallArgs)
  /\ Raise("EEException", 112, stderr)
  /\ UNCHANGED <<argv, response, site_info, metadata, start_year, loopvars, stdout,
                 files, ee_initialized, returned>>

\* line 127 when no year was processed: None has no to_csv
to_csv_on_None ==
  /\ pc = "to_csv"
  /\ IsNone(df)
  /\ Raise("AttributeError", 127, stderr)
  /\ UNCHANGED <<argv, response, site_info, metadata, start_year, loopvars, stdout,
                 files, ee_initialized, extraction, trace>>

\* lines 126-127: the table is written, without the index column
to_csv_writes ==
  /\ pc = "to_csv"
  /\ ~IsNone(df)
  /\ trace' = Append(trace, "to_csv")
  /\ files' = Append(files, [path |-> OutFile(sitename), rows |-> df.rows])
  /\ pc' = "print_nlines"
  /\ UNCHANGED <<argv, response, site_info, metadata, start_year, loopvars, stdout,
                 stderr, ee_initialized, outcome, exc, extraction>>

\* line 127: the write fails (the directory does not exist, the disk is full)
to_csv_raises ==
  /\ pc = "to_csv"
  /\ ~IsNone(df)
  /\ trace' = Append(trace, "to_csv")
  /\ Raise("OSError", 127, stderr)
  /\ UNCHANGED <<argv, response, site_info, metadata, start_year, loopvars, stdout,
                 files, ee_initialized, extraction>>

\* lines 129-130: the row count is printed and the script ends
print_nlines ==
  /\ pc = "print_nlines"
  /\ LET nlines == Len(df.rows)
     IN stdout' = Append(stdout, <<"{} lines saved to output file", nlines>>)
  /\ pc' = "terminated"
  /\ outcome' = "success"
  /\ UNCHANGED <<argv, response, site_info, metadata, start_year, loopvars, stderr,
                 files, ee_initialized, exc, extraction, trace>>

Next ==
  \/ main_args
  \/ get_siteinfo
  \/ get_siteinfo_raises
  \/ check_site_info
  \/ parse_start_year
  \/ ee_Initialize
  \/ ee_Initialize_raises
  \/ for_next
  \/ for_exhausted
  \/ gee_subset_returns
  \/ gee_subset_raises
  \/ to_csv_on_None
  \/ to_csv_writes
  \/ to_csv_raises
  \/ print_nlines

Spec == Init /\ [][Next]_vars

\* every statement of the script runs to its end or raises: a run that can
\* take a step takes one
FairSpec == Spec /\ WF_vars(Next)

\* ------------------------------------------------------- claims: vocabulary
Terminated == pc = "terminated"
\* the answer of the metadata request, once there is one
Answered == response.py = "Response"
Answered200 == Answered /\ response.status_code = 200
\* line 97 has assigned start_year
Parsed == start_year # 0
\* the loop has run to its end: control is at, or went through, line 126
LoopCompleted ==
  \/ pc \in {"to_csv", "print_nlines"}
  \/ outcome = "success"
  \/ (~IsNone(exc) /\ exc.line >= 126)
\* the year a date text "YYYY-..." starts with, read digit by digit
YearOf(d) == 1000 * DigitValue(d.s[1]) + 100 * DigitValue(d.s[2])
             + 10 * DigitValue(d.s[3]) + DigitValue(d.s[4])
CallYear(i) == YearOf(calls[i].start_date)
SavedLines == {i \in 1..Len(stdout) : stdout[i][1] = "{} lines saved to output file"}
Occurrences(what) == {i \in 1..Len(trace) : trace[i] = what}
JanFirst == <<"0", "1">>

\* C1: for a start year s <= 2017 read from date_first, the calls issued so
\* far are for the years s, s+1, ... in this order (none skipped, repeated or
\* outside s..2017), and once the loop has run to its end there is exactly
\* one call for each of the 2017 - s + 1 years; date_last plays no part.
C1_OneCallPerYear ==
  (Parsed /\ start_year <= 2017) =>
    LET s == YearOf(date_first)
    IN /\ start_year = s
       /\ Len(calls) <= 2017 - s + 1
       /\ \A i \in 1..Len(calls) : CallYear(i) = s + i - 1
       /\ LoopCompleted => Len(calls) = 2017 - s + 1

C1_Witness ==
  /\ pc = "to_csv"
  /\ date_first = PyStr(<<"2", "0", "1", "5", "-", "0", "6", "-", "0", "1">>)
  /\ date_last = PyStr(<<"2", "0", "1", "7", "-", "0", "1", "-", "0", "1">>)
  /\ Len(calls) = 3
  /\ <<CallYear(1), CallYear(2), CallYear(3)>> = <<2015, 2016, 2017>>

\* C2: after an answer whose status is not 200, get_siteinfo has written the
\* two messages (the status code last) to standard error and returned None;
\* the run can only exit: the session is never initialised, no extraction
\* call is issued and no file is written.
C2_Non200Exits ==
  (Answered /\ response.status_code # 200) =>
    /\ IsNone(site_info)
    /\ stderr = <<<<"Error getting site info for {}.\n", sitename>>,
                  <<"HTTP Status_code: {}\n", response.status_code>>>>
    /\ pc \in {"check_site_info", "terminated"}
    /\ Terminated => (outcome = "exit" /\ IsNone(exc))
    /\ ~ee_initialized
    /\ trace = <<"requests.get">>
    /\ calls = <<>>
    /\ files = <<>>

C2_Witness ==
  /\ Answered /\ response.status_code = 404
  /\ Terminated /\ outcome = "exit"

\* C3: after a 200 answer with count 0 the run ends by an explicit exit,
\* without an exception and without reaching the read of the first record.
C3_NotFoundExits ==
  (Answered200 /\ response.json.count = 0) =>
    /\ pc \in {"check_site_info", "terminated"}
    /\ Terminated => (outcome = "exit" /\ IsNone(exc))

\* C4: the accumulator is None before the first table and afterwards holds
\* the rows of the tables returned so far, table after table in the order of
\* the calls: no row dropped, repeated or moved, so its length is the sum of
\* the yearly lengths and its rows are in ascending year order.
RECURSIVE Flatten(_)
Flatten(tables) ==
  IF tables = <<>> THEN <<>> ELSE Flatten(SubSeq(tables, 1, Len(tables) - 1)) \o tables[Len(tables)].rows
RECURSIVE SumRows(_)
SumRows(tables) ==
  IF tables = <<>> THEN 0 ELSE Len(Head(tables).rows) + SumRows(Tail(tables))

C4_Concatenation ==
  ee_initialized =>
    IF returned = <<>>
    THEN IsNone(df)
    ELSE /\ df.py = "DataFrame"
         /\ df.rows = Flatten(returned)
         /\ Len(df.rows) = SumRows(returned)
         /\ \A i, j \in 1..Len(df.rows) : i < j => df.rows[i].year <= df.rows[j].year
         /\ \A k \in 1..Len(returned) :
              \A r \in 1..Len(returned[k].rows) :
                df.rows[SumRows(SubSeq(returned, 1, k - 1)) + r] = returned[k].rows[r]

C4_Witness ==
  /\ pc = "to_csv"
  /\ Len(returned) = 3
  /\ \A k \in 1..3 : Len(returned[k].rows) >= 1
  /\ Len(returned[1].rows) # Len(returned[2].rows)
  /\ Len(df.rows) >= 5

\* C5: after a 200 answer with at least one record, the latitude, longitude,
\* date_first and date_last of the run are those of the first record, every
\* extraction call gets that latitude and longitude, and get_siteinfo has
\* written nothing to standard error (only a traceback can be there).
C5_FirstRecord ==
  (Answered200 /\ response.json.count >= 1) =>
    LET first == response.json.results[1]
    IN /\ site_info = response.json
       /\ pc = "check_site_info" => stderr = <<>>
       /\ \A i \in 1..Len(stderr) : stderr[i][1] = "Traceback: {}"
       /\ pc # "check_site_info" =>
            /\ lat = first.Lat
            /\ lon = first.Lon
            /\ date_first = first.date_first
            /\ date_last = first.date_last
       /\ \A i \in 1..Len(calls) :
            /\ calls[i].latitude.tenths = first.Lat.tenths
            /\ calls[i].longitude.tenths = first.Lon.tenths

C5_Witness ==
  /\ Answered200 /\ response.json.count = 1
  /\ Len(calls) >= 1
  /\ lat = JsonNumber("int", 440)
  /\ lon = JsonNumber("float", -713)
  /\ stderr = <<>>

\* C6: in a run that processed at least one year and in which every
\* extraction call returned, to_csv is invoked exactly once, after the last
\* extraction call, on <sitename>_gee_subset.csv; when it returns, the one
\* file holds the combined table and the one row count printed, the last
\* line of standard output, is the length of that table; when it raises,
\* there is no file and no row count.
ExpectedPath ==
  CASE sitename = "harvard" -> "./modis_time_series/harvard_gee_subset.csv"
    [] sitename = "bartlettir" -> "./modis_time_series/bartlettir_gee_subset.csv"

C7_Windows ==
  \A i \in 1..Len(calls) :
    LET c == calls[i]
        from == split(c.start_date.s, "-")
        to == split(c.end_date.s, "-")
        y == start_year + i - 1
    IN /\ Len(from) = 3 /\ IntAccepts(from[1]) /\ int(from[1]) = y
       /\ from[2] = JanFirst /\ from[3] = JanFirst
       /\ Len(to) = 3 /\ IntAccepts(to[1]) /\ int(to[1]) = y + 1
       /\ to[2] = JanFirst /\ to[3] = JanFirst
       /\ c.product = "MODIS/006/MCD43A4"
       /\ c.bands = <<"Nadir_Reflectance_Band1", "Nadir_Reflectance_Band2",
                      "Nadir_Reflectance_Band3">>
       /\ c.latitude = [py |-> "float", tenths |-> lat.tenths]
       /\ c.longitude = [py |-> "float", tenths |-> lon.tenths]
       /\ c.scale = 500
       /\ c.pad = 0
       /\ i > 1 => calls[i - 1].end_date = c.start_date
       /\ (i = Len(calls) /\ LoopCompleted) => int(to[1]) = 2018

C7_Witness ==
  /\ pc = "to_csv"
  /\ Len(calls) = 3
  /\ lat.py = "int"
  /\ calls[1].start_date = PyStr(<<"2", "0", "1", "5", "-", "0", "1", "-", "0", "1">>)
  /\ calls[3].end_date = PyStr(<<"2", "0", "1", "8", "-", "0", "1", "-", "0", "1">>)

\* C8: once an extraction call has raised, the run is over with an uncaught
\* failure: the failed call is the last external call, its year was called
\* once, no file is written, to_csv was never invoked and no row count is
\* printed, whatever the earlier years returned.
ExtractionFailed == ~IsNone(exc) /\ exc.line = 112

C8_FailureEndsRun ==
  ExtractionFailed =>
    /\ Terminated /\ outcome = "uncaught"
    /\ trace[Len(trace)] = "gee_subset"
    /\ Len(calls) = Len(returned) + 1
    /\ \A i \in 1..(Len(calls) - 1) : CallYear(i) < CallYear(Len(calls))
    /\ CallYear(Len(calls)) = year
    /\ files = <<>>
    /\ Occurrences("to_csv") = {}
    /\ SavedLines = {}

C8_Witness ==
  /\ ExtractionFailed
  /\ Len(returned) = 1 /\ Len(returned[1].rows) >= 1
  /\ year = 2016

\* C9: a file is written only after some extraction call has returned a
\* table; with a start year greater than 2017 no extraction call is ever
\* issued, the accumulator is None at the writer, and the run ends in an
\* uncaught failure with no file written and no row count printed.
C9_NothingToWrite ==
  /\ files # <<>> => Len(returned) >= 1
  /\ Occurrences("to_csv") # {} => Len(returned) >= 1
  /\ (Parsed /\ start_year > 2017) =>
       /\ calls = <<>> /\ returned = <<>>
       /\ pc \notin {"gee_subset", "print_nlines"}
       /\ pc = "to_csv" => IsNone(df)
       /\ Terminated => (outcome = "uncaught" /\ exc.py \in {"EEException", "AttributeError"})
       /\ (Terminated /\ ee_initialized) => exc = [py |-> "AttributeError", line |-> 127]
       /\ files = <<>>
       /\ SavedLines = {}

C9_Witness ==
  /\ Parsed /\ start_year = 2018
  /\ Terminated
  /\ exc = [py |-> "AttributeError", line |-> 127]

\* C10: every run terminates, in exactly one of the three outcomes, and the
\* external calls of a run are, in this order: the metadata request, the
\* session initialisation, the extraction calls, one file write.
OrderOK ==
  /\ \A i \in 1..Len(trace) :
       /\ trace[i] = "requests.get" <=> i = 1
       /\ trace[i] = "ee.Initialize" <=> i = 2
       /\ trace[i] = "to_csv" => (i = Len(trace) /\ i > 2)
       /\ trace[i] \in {"requests.get", "ee.Initialize", "gee_subset", "to_csv"}
  /\ Len(calls) = Cardinality(Occurrences("gee_subset"))
  /\ Len(files) <= Cardinality(Occurrences("to_csv"))

OutcomeOK ==
  /\ Terminated <=> outcome # "running"
  /\ outcome \in {"running", "exit", "uncaught", "success"}
  /\ outcome = "exit" <=> (Terminated /\ IsNone(exc) /\ IsNone(site_info))
  /\ outcome = "uncaught" <=> (Terminated /\ ~IsNone(exc))
  /\ outcome = "success" <=> (Len(files) = 1 /\ SavedLines # {})
  /\ outcome = "uncaught" => SavedLines = {}
  /\ outcome = "exit" => (files = <<>> /\ SavedLines = {})

C10_TerminatesInOrder == <>Terminated /\ [](OrderOK /\ OutcomeOK)

C10_Witness ==
  /\ outcome = "success"
  /\ trace = <<"requests.get", "ee.Initialize", "gee_subset", "gee_subset", "to_csv">>

====
